---- MODULE Spec2Model ----
(***************************************************************************)
(* The reverse SSH tunnel supervisor of sandhole-benchmark:                *)
(*   ssh_entrypoint                     (src/src/lib.rs)                   *)
(*   TcpForwardSession::connect_key,                                       *)
(*   TcpForwardSession::start_forwarding,                                  *)
(*   TcpForwardSession::close           (src/service/src/ssh.rs)           *)
(* The retry policy is backon's ExponentialBuilder as ssh_entrypoint       *)
(* configures it: default() with jitter and a maximum delay of 20 s.       *)
(***************************************************************************)
EXTENDS Integers, Sequences, FiniteSets, TLC

(* ------------------------------ bounds --------------------------------- *)

\* Session handles the model lets connect_stream create.
MaxSessions == 2

\* Control-channel events the remote peer sends on one channel.
MaxEvents == 2

\* Longest outage: consecutive connect attempts the network may let fail.
MaxOutage == 5

\* Forwarded connections the peer opens.
MaxTasks == 2

\* Clock ticks per second: the resolution at which delays and jitter are drawn.
Ticks == 2

(* ------------------------- program constants --------------------------- *)

\* ExponentialBuilder::default(): min_delay 1 s, factor 2, max_times 3.
MinDelaySecs == 1
Factor == 2
MaxTimes == 3
\* .with_max_delay(Duration::from_secs(20))
MaxDelaySecs == 20

MinDelay == MinDelaySecs * Ticks
MaxDelay == MaxDelaySecs * Ticks

\* current_delay: None
NoDelay == 0

\* No session bound to `session` / no handle held by connect_key.
NoSession == -1

(* ----------------------- control-channel events ------------------------ *)

Msg(t, d, e, s) == [type |-> t, data |-> d, ext |-> e, exit_status |-> s]

\* The ChannelMsg values the remote peer may deliver on the control channel.
ChannelMsgs ==
    { Msg("Data", "hello", 0, 0),
      Msg("Data", "world", 0, 0),
      Msg("ExtendedData", "oops", 1, 0),
      Msg("ExtendedData", "oops", 2, 0),
      Msg("Success", "", 0, 0),
      Msg("Close", "", 0, 0),
      Msg("ExitStatus", "", 0, 0),
      Msg("ExitStatus", "", 0, 7),
      Msg("Eof", "", 0, 0) }

\* Result<u32> of start_forwarding.
NoResult == [kind |-> "none", code |-> 0, err |-> ""]
Ok(c) == [kind |-> "ok", code |-> c, err |-> ""]
Err(e) == [kind |-> "err", code |-> 0, err |-> e]

VARIABLES
    pc,             \* position of ssh_entrypoint (and of the call it awaits)
    session,        \* `session` of the loop body: the handle connect returned
    handle,         \* the Handle connect_stream gave connect_key, before Ok(Self(..))
    live,           \* handles created and not yet dropped
    nextId,         \* identity of the next handle connect_stream creates
    closeCount,     \* per handle: calls of TcpForwardSession::close
    outage,         \* connect_key calls of this iteration that fail before one succeeds
    connects,       \* connect_key calls of this loop iteration
    fails,          \* failed connect_key calls of this loop iteration
    attempts,       \* ExponentialBackoff.attempts
    current_delay,  \* ExponentialBackoff.current_delay
    delays,         \* delays the backoff of this iteration has produced
    slept,          \* the delay slept right before the pending connect attempt
    chan,           \* control channel: events sent by the peer, not yet received
    chanEnded,      \* the peer's side of the control channel is gone
    received,       \* events channel.wait() returned to start_forwarding
    stdout,         \* payloads written to standard output by this start_forwarding
    stderr,         \* payloads written to standard error by this start_forwarding
    opens,          \* channel_open_session calls on `session`
    forwards,       \* tcpip_forward calls on `session`
    eofs,           \* channel.eof() calls on the control channel
    eofResult,      \* what channel.eof() returned: "none", "ok" or "err"
    result,         \* what the last start_forwarding returned
    closeResult,    \* what the last TcpForwardSession::close returned
    tasks,          \* per forwarded connection: the task spawned to serve it
    ck,             \* one call of connect_key: its inputs, position and return value
    variant,        \* which crate's get_handler serves GET /get: "plain" or "service"
    counter0,       \* data.1 when the first of the requests considered arrived
    counter,        \* data.1, the AtomicU16 of the service crate's get_handler
    requests,       \* per GET request: its path argument, position and response
    ws,             \* one WebSocket connection of ws_handler and its peer
    bench,          \* measure's entrypoint: its arguments, position and return value
    jhs             \* the request tasks entrypoint spawned, by order of spawn

connVars == <<outage, connects, fails, attempts, current_delay, delays, slept>>
chanVars == <<chan, chanEnded, received, stdout, stderr, opens, forwards, eofs, eofResult>>
sessVars == <<session, handle, live, nextId, closeCount>>
tunnelVars == <<pc, sessVars, connVars, chanVars, result, closeResult>>

\* State outside ssh_entrypoint's own: the tasks of the forwarded connections,
\* and the steps of one connect_key call.
getVars == <<variant, counter0, counter, requests>>

benchVars == <<bench, jhs>>

sideVars == <<tasks, ck, getVars, ws, benchVars>>

\* What a step of a forwarded connection's task leaves alone.
exceptTasks == <<tunnelVars, ck, getVars, ws, benchVars>>

\* What a step inside connect_key leaves alone.
exceptCk == <<tunnelVars, tasks, getVars, ws, benchVars>>

\* What a step of get_handler leaves alone, the counter apart.
exceptGet == <<tunnelVars, tasks, ck, variant, counter0, ws, benchVars>>

\* What a step of ws_handler or of its peer leaves alone.
exceptWs == <<tunnelVars, tasks, ck, getVars, benchVars>>

\* What a step of measure's entrypoint or of its request tasks leaves alone.
exceptBench == <<tunnelVars, tasks, ck, getVars, ws>>

vars == <<tunnelVars, sideVars>>

TaskIds == 1 .. MaxTasks

\* No task: the forwarded connection has not been opened.
NoTask == [state |-> "none", session |-> NoSession]

SessionIds == 0 .. (MaxSessions - 1)

(* ------------------------------- Init ---------------------------------- *)

TunnelInit ==
    /\ pc = "connect_stream"
    /\ session = NoSession
    /\ handle = NoSession
    /\ live = {}
    /\ nextId = 0
    /\ closeCount = [i \in SessionIds |-> 0]
    /\ outage \in 0 .. MaxOutage
    /\ connects = 0
    /\ fails = 0
    /\ attempts = 0
    /\ current_delay = NoDelay
    /\ delays = <<>>
    /\ slept = 0
    /\ chan = <<>>
    /\ chanEnded = FALSE
    /\ received = <<>>
    /\ stdout = <<>>
    /\ stderr = <<>>
    /\ opens = 0
    /\ forwards = 0
    /\ eofs = 0
    /\ eofResult = "none"
    /\ result = NoResult
    /\ closeResult = "none"

\* No forwarded connection has been opened.
NoTasks == tasks = [t \in TaskIds |-> NoTask]

\* Option<String>::None and Some(value).
None == [some |-> FALSE, value |-> <<>>]

Some(v) == [some |-> TRUE, value |-> v]

\* connect_key's return value.
Pending == [ok |-> FALSE, err |-> "pending"]

\* A connect_key call at the given position.
Call(stage, fingerprint) ==
    [stage |-> stage, server_fingerprint |-> fingerprint, key |-> <<>>,
     tcp |-> FALSE, nodelay |-> FALSE, accepted |-> FALSE, handshake |-> FALSE,
     rsa_hash |-> FALSE, auth |-> "none", handle |-> FALSE, ret |-> Pending]

\* connect_key is not being looked into.
NoCall == ck = Call("none", None)

\* GET requests looked at together.
MaxRequests == 2

RequestIds == 1 .. MaxRequests

\* data.len() of get_handler: the length of the payload buffer.
BufLen == 2

\* A request at the given position of get_handler.
Request(stage, file_size) ==
    [stage |-> stage, file_size |-> file_size, pad |-> 0,
     status |-> "pending", body |-> <<>>]

NoRequest == Request("none", 0)

\* No GET request is being looked into.
NoGet ==
    /\ variant = "none"
    /\ counter0 = 0
    /\ counter = 0
    /\ requests = [r \in RequestIds |-> NoRequest]

\* A WebSocket connection: the frames the peer has sent, those of them not yet
\* received by the handler, whether the peer has ended its stream, the handler's
\* position and the frame it holds, the frames it has received, the frames it has
\* sent back, and why it stopped.
Socket(pos) ==
    [pc |-> pos, sent |-> <<>>, inbound |-> <<>>, ended |-> FALSE,
     message |-> <<>>, got |-> <<>>, echoed |-> <<>>, stop |-> "none"]

\* No WebSocket connection is being looked into.
NoSocket == ws = Socket("none")

\* The largest `concurrency` entrypoint is called with.
MaxConcurrency == 2

JobIds == 1 .. MaxConcurrency

\* measure's entrypoint at the given position.
Bench(pos, endpoint, concurrency) ==
    [pc |-> pos, endpoint |-> endpoint, concurrency |-> concurrency,
     spawned |-> 0, logged |-> FALSE, ret |-> "pending"]

\* A request task: its position, the requests it has sent, responses it has had.
Job(state) == [state |-> state, requests |-> 0, responses |-> 0]

\* measure's entrypoint is not being looked into.
NoBench ==
    /\ bench = Bench("none", "Get", 0)
    /\ jhs = [j \in JobIds |-> Job("none")]

Init ==
    /\ TunnelInit
    /\ NoTasks
    /\ NoCall
    /\ NoGet
    /\ NoSocket
    /\ NoBench

(* -------------------------- backoff (backon) --------------------------- *)

\* ExponentialBackoff::next, the delay before jitter: min_delay the first time,
\* then the previous delay times factor, clamped to max_delay.
BackoffBase(cur) ==
    IF cur = NoDelay
    THEN MinDelay
    ELSE LET grown == IF cur < MaxDelay THEN cur * Factor ELSE cur
         IN  IF grown > MaxDelay THEN MaxDelay ELSE grown

\* Jitter drawn as a share of the maximum delay instead of the current one.
Jitters_OfMaxDelay(base) == 0 .. (MaxDelay - 1)

\* with_jitter: a random share r in [0, 1) of the delay is added to it.
Jitters(base) == 0 .. (base - 1)

\* ExponentialBackoff::next returns None once attempts reached max_times.
BackoffExhausted(n) == n >= MaxTimes

\* Retry::poll on Err(e) of the connect future: ask the backoff for a delay;
\* None ends the retry with Err(e), which `?` returns from ssh_entrypoint;
\* Some(d) sleeps d and calls connect again.
RetryOnError ==
    /\ fails' = fails + 1
    /\ IF BackoffExhausted(attempts)
       THEN /\ pc' = "returned"
            /\ UNCHANGED <<attempts, current_delay, delays>>
       ELSE \E j \in Jitters(BackoffBase(current_delay)) :
            /\ attempts' = attempts + 1
            /\ current_delay' = BackoffBase(current_delay)
            /\ delays' = Append(delays, BackoffBase(current_delay) + j)
            /\ pc' = "sleep"

(* -------------------- TcpForwardSession::connect_key ------------------- *)

\* The outage still lasts: this connect attempt is one that fails.
Down == fails < outage

\* connect_key up to the end of connect_stream: the TCP connect (an error is
\* returned by `?`), set_nodelay (an error is only logged) and the SSH
\* handshake, which yields the Handle or an error.
ConnectStream ==
    /\ pc = "connect_stream"
    /\ connects' = connects + 1
    /\ \E tcp \in BOOLEAN, nodelay \in BOOLEAN, handshake \in BOOLEAN :
         IF tcp /\ handshake
         THEN /\ nextId < MaxSessions
              /\ handle' = nextId
              /\ live' = live \cup {nextId}
              /\ nextId' = nextId + 1
              /\ pc' = "authenticate"
              /\ UNCHANGED <<fails, attempts, current_delay, delays>>
         ELSE /\ Down
              /\ RetryOnError
              /\ UNCHANGED <<handle, live, nextId>>
    /\ UNCHANGED <<session, closeCount, outage, slept, chanVars, result, closeResult>>
    /\ UNCHANGED sideVars

\* The authentication outcome decides what connect_key returns: Ok(Self(session))
\* only for an AuthResult that is a success; an error of best_supported_rsa_hash
\* or of authenticate_publickey, and every other AuthResult, return Err and
\* drop the Handle.
AuthOutcomes == {"Success", "Failure", "Error"}

\* Authenticate with the Handle of a failed authentication kept alive (as if
\* connect_key stored it somewhere that outlives the call).
Authenticate_LeaksHandle ==
    /\ pc = "authenticate"
    /\ \E rsa_hash \in BOOLEAN, auth \in AuthOutcomes :
         IF rsa_hash /\ auth = "Success"
         THEN /\ ~Down
              /\ session' = handle
              /\ handle' = NoSession
              /\ pc' = "channel_open_session"
              /\ attempts' = 0
              /\ current_delay' = NoDelay
              /\ delays' = <<>>
              /\ chan' = <<>>
              /\ chanEnded' = FALSE
              /\ received' = <<>>
              /\ stdout' = <<>>
              /\ stderr' = <<>>
              /\ opens' = 0
              /\ forwards' = 0
              /\ eofs' = 0
              /\ eofResult' = "none"
              /\ result' = NoResult
              /\ closeResult' = "none"
              /\ UNCHANGED <<live, fails>>
         ELSE /\ Down
              /\ handle' = NoSession
              /\ RetryOnError
              /\ UNCHANGED <<live, session, chanVars, result, closeResult>>
    /\ UNCHANGED <<nextId, closeCount, outage, connects, slept>>
    /\ UNCHANGED sideVars

\* connect_key from best_supported_rsa_hash to its return. On Ok the retry
\* completes, its backoff is dropped, and ssh_entrypoint calls start_forwarding
\* on the new session.
Authenticate ==
    /\ pc = "authenticate"
    /\ \E rsa_hash \in BOOLEAN, auth \in AuthOutcomes :
         IF rsa_hash /\ auth = "Success"
         THEN /\ ~Down
              /\ session' = handle
              /\ handle' = NoSession
              /\ pc' = "channel_open_session"
              /\ attempts' = 0
              /\ current_delay' = NoDelay
              /\ delays' = <<>>
              /\ chan' = <<>>
              /\ chanEnded' = FALSE
              /\ received' = <<>>
              /\ stdout' = <<>>
              /\ stderr' = <<>>
              /\ opens' = 0
              /\ forwards' = 0
              /\ eofs' = 0
              /\ eofResult' = "none"
              /\ result' = NoResult
              /\ closeResult' = "none"
              /\ UNCHANGED <<live, fails>>
         ELSE /\ Down
              /\ live' = live \ {handle}
              /\ handle' = NoSession
              /\ RetryOnError
              /\ UNCHANGED <<session, chanVars, result, closeResult>>
    /\ UNCHANGED <<nextId, closeCount, outage, connects, slept>>
    /\ UNCHANGED sideVars

\* The sleep between a failed connect and the next one is over.
Sleep ==
    /\ pc = "sleep"
    /\ pc' = "connect_stream"
    /\ slept' = delays[Len(delays)]
    /\ UNCHANGED <<sessVars, outage, connects, fails, attempts, current_delay,
                   delays, chanVars, result, closeResult>>
    /\ UNCHANGED sideVars

(* ----------------- TcpForwardSession::start_forwarding ----------------- *)

\* ChannelOpenSession with a failed open tried once more on the same session.
ChannelOpenSession_Reopens ==
    /\ pc = "channel_open_session"
    /\ opens' = opens + 1
    /\ \E ok \in BOOLEAN :
         IF ok
         THEN pc' = "tcpip_forward" /\ UNCHANGED result
         ELSE /\ pc' = IF opens = 0 THEN "channel_open_session" ELSE "close"
              /\ result' = IF opens = 0 THEN result
                           ELSE Err("channel_open_session error.")
    /\ UNCHANGED <<sessVars, connVars, chan, chanEnded, received, stdout, stderr,
                   forwards, eofs, eofResult, closeResult>>
    /\ UNCHANGED sideVars

\* session.channel_open_session().await.wrap_err_with(..)?
ChannelOpenSession ==
    /\ pc = "channel_open_session"
    /\ opens' = opens + 1
    /\ \E ok \in BOOLEAN :
         IF ok
         THEN pc' = "tcpip_forward" /\ UNCHANGED result
         ELSE pc' = "close" /\ result' = Err("channel_open_session error.")
    /\ UNCHANGED <<sessVars, connVars, chan, chanEnded, received, stdout, stderr,
                   forwards, eofs, eofResult, closeResult>>
    /\ UNCHANGED sideVars

\* TcpipForward with the error of start_forwarding returned by ssh_entrypoint
\* (as if the loop called `session.start_forwarding().await?`).
TcpipForward_Propagates ==
    /\ pc = "tcpip_forward"
    /\ forwards' = forwards + 1
    /\ \E ok \in BOOLEAN :
         IF ok
         THEN pc' = "wait" /\ UNCHANGED result
         ELSE pc' = "returned" /\ result' = Err("tcpip_forward error.")
    /\ UNCHANGED <<sessVars, connVars, chan, chanEnded, received, stdout, stderr,
                   opens, eofs, eofResult, closeResult>>
    /\ UNCHANGED sideVars

\* TcpipForward with a failed request sent again on the same session.
TcpipForward_Retries ==
    /\ pc = "tcpip_forward"
    /\ forwards' = forwards + 1
    /\ \E ok \in BOOLEAN :
         IF ok
         THEN pc' = "wait" /\ UNCHANGED result
         ELSE /\ pc' = IF forwards = 0 THEN "tcpip_forward" ELSE "close"
              /\ result' = IF forwards = 0 THEN result
                           ELSE Err("tcpip_forward error.")
    /\ UNCHANGED <<sessVars, connVars, chan, chanEnded, received, stdout, stderr,
                   opens, eofs, eofResult, closeResult>>
    /\ UNCHANGED sideVars

\* session.tcpip_forward("measure", 80).await.wrap_err_with(..)?
TcpipForward ==
    /\ pc = "tcpip_forward"
    /\ forwards' = forwards + 1
    /\ \E ok \in BOOLEAN :
         IF ok
         THEN pc' = "wait" /\ UNCHANGED result
         ELSE pc' = "close" /\ result' = Err("tcpip_forward error.")
    /\ UNCHANGED <<sessVars, connVars, chan, chanEnded, received, stdout, stderr,
                   opens, eofs, eofResult, closeResult>>
    /\ UNCHANGED sideVars

\* The remote peer puts an event on the open control channel.
RemoteSend ==
    /\ pc \in {"tcpip_forward", "wait"}
    /\ ~chanEnded
    /\ Len(received) + Len(chan) < MaxEvents
    /\ \E m \in ChannelMsgs : chan' = Append(chan, m)
    /\ UNCHANGED <<pc, sessVars, connVars, chanEnded, received, stdout, stderr,
                   opens, forwards, eofs, eofResult, result, closeResult>>
    /\ UNCHANGED sideVars

\* The control channel's sending side goes away (the connection is lost).
RemoteEnd ==
    /\ pc \in {"tcpip_forward", "wait"}
    /\ ~chanEnded
    /\ chanEnded' = TRUE
    /\ UNCHANGED <<pc, sessVars, connVars, chan, received, stdout, stderr,
                   opens, forwards, eofs, eofResult, result, closeResult>>
    /\ UNCHANGED sideVars

\* Classify with the Data arm missing: a Data event is taken like a Success.
Classify_DataIgnored(m) ==
    CASE m.type = "Data" -> "ignore"
      [] m.type = "ExtendedData" /\ m.ext = 1 -> "stderr"
      [] m.type = "Success" -> "ignore"
      [] m.type = "Close" -> "close"
      [] m.type = "ExitStatus" -> "exit_status"
      [] OTHER -> "unknown"

\* Classify with every ExtendedData taken by the stderr arm, whatever its ext.
Classify_AnyExt(m) ==
    CASE m.type = "Data" -> "stdout"
      [] m.type = "ExtendedData" -> "stderr"
      [] m.type = "Success" -> "ignore"
      [] m.type = "Close" -> "close"
      [] m.type = "ExitStatus" -> "exit_status"
      [] OTHER -> "unknown"

\* The arm of `match msg` that takes the event.
Classify(m) ==
    CASE m.type = "Data" -> "stdout"
      [] m.type = "ExtendedData" /\ m.ext = 1 -> "stderr"
      [] m.type = "Success" -> "ignore"
      [] m.type = "Close" -> "close"
      [] m.type = "ExitStatus" -> "exit_status"
      [] OTHER -> "unknown"

\* `break 0` of the Close arm.
CloseCode == 0

\* The ExitStatus arm breaking with 0, like the Close arm.
ExitCode_Zero(m) == 0

\* `break exit_status` of the ExitStatus arm.
ExitCode(m) == m.exit_status

\* An end of the event stream taken for a Close event.
WaitNone_IsClose == Ok(CloseCode)

\* let Some(msg) = channel.wait().await else { return Err(eyre!(..)) }
WaitNone == Err("Unexpected end of channel.")

\* Outcomes of write_all followed by flush on stdout or stderr.
IoOutcomes == {"ok", "write_err", "flush_err"}

\* One round of the event loop: channel.wait().await and the match on its result.
Wait ==
    /\ pc = "wait"
    /\ IF chan = <<>>
       THEN /\ chanEnded
            /\ pc' = "close"
            /\ result' = WaitNone
            /\ UNCHANGED <<chan, received, stdout, stderr, eofs, eofResult>>
       ELSE LET m == Head(chan) arm == Classify(m) IN
            /\ chan' = Tail(chan)
            /\ received' = Append(received, m)
            /\ \E io \in IoOutcomes, eof_ok \in BOOLEAN :
                 CASE arm = "stdout" ->
                        /\ stdout' = IF io = "write_err" THEN stdout
                                     ELSE Append(stdout, m.data)
                        /\ IF io = "ok"
                           THEN pc' = "wait" /\ UNCHANGED result
                           ELSE pc' = "close" /\ result' = Err("stdout")
                        /\ UNCHANGED <<stderr, eofs, eofResult>>
                   [] arm = "stderr" ->
                        /\ stderr' = IF io = "write_err" THEN stderr
                                     ELSE Append(stderr, m.data)
                        /\ IF io = "ok"
                           THEN pc' = "wait" /\ UNCHANGED result
                           ELSE pc' = "close" /\ result' = Err("stderr")
                        /\ UNCHANGED <<stdout, eofs, eofResult>>
                   [] arm = "ignore" ->
                        /\ pc' = "wait"
                        /\ UNCHANGED <<result, stdout, stderr, eofs, eofResult>>
                   [] arm = "close" ->
                        /\ pc' = "close"
                        /\ result' = Ok(CloseCode)
                        /\ UNCHANGED <<stdout, stderr, eofs, eofResult>>
                   [] arm = "exit_status" ->
                        /\ eofs' = eofs + 1
                        /\ eofResult' = IF eof_ok THEN "ok" ELSE "err"
                        /\ pc' = "close"
                        /\ result' = IF eof_ok THEN Ok(ExitCode(m))
                                     ELSE Err("Unable to close connection.")
                        /\ UNCHANGED <<stdout, stderr>>
                   [] OTHER ->
                        /\ pc' = "close"
                        /\ result' = Err("Unknown message type")
                        /\ UNCHANGED <<stdout, stderr, eofs, eofResult>>
    /\ UNCHANGED <<sessVars, connVars, chanEnded, opens, forwards, closeResult>>
    /\ UNCHANGED sideVars

(* ---------------- ssh_entrypoint after start_forwarding ---------------- *)

\* NewRetry with a first backoff delay slept before the first connect attempt.
NewRetry_Sleeps ==
    /\ outage' \in 0 .. MaxOutage
    /\ connects' = 0
    /\ fails' = 0
    /\ attempts' = 1
    /\ current_delay' = MinDelay
    /\ delays' = <<MinDelay>>
    /\ slept' = 0
    /\ pc' = "sleep"

\* The head of the loop body: `connect.retry(ExponentialBuilder::default()
\* .with_jitter().with_max_delay(..))` builds a new backoff for this iteration
\* and calls connect at once; how long the outage lasts is the network's choice.
NewRetry ==
    /\ outage' \in 0 .. MaxOutage
    /\ connects' = 0
    /\ fails' = 0
    /\ attempts' = 0
    /\ current_delay' = NoDelay
    /\ delays' = <<>>
    /\ slept' = 0
    /\ pc' = "connect_stream"

\* Close with the error of the disconnect returned by ssh_entrypoint (as if the
\* loop called `session.close().await?`).
Close_Propagates ==
    /\ pc = "close"
    /\ closeCount' = [closeCount EXCEPT ![session] = @ + 1]
    /\ \E disconnect_ok \in BOOLEAN :
         /\ closeResult' = IF disconnect_ok THEN "ok" ELSE "err"
         /\ pc' = IF disconnect_ok THEN "connect_stream" ELSE "returned"
    /\ live' = live \ {session}
    /\ session' = NoSession
    /\ outage' \in 0 .. MaxOutage
    /\ connects' = 0
    /\ fails' = 0
    /\ attempts' = 0
    /\ current_delay' = NoDelay
    /\ delays' = <<>>
    /\ slept' = 0
    /\ chan' = <<>>
    /\ chanEnded' = FALSE
    /\ received' = <<>>
    /\ stdout' = <<>>
    /\ stderr' = <<>>
    /\ opens' = 0
    /\ forwards' = 0
    /\ eofs' = 0
    /\ eofResult' = "none"
    /\ UNCHANGED <<handle, nextId, result>>
    /\ UNCHANGED sideVars

\* ssh_entrypoint from session.close().await to the connect of the next loop
\* iteration: the disconnect succeeds or fails (an error is only logged), the
\* loop body ends, which drops `session`, and the next iteration builds a new
\* retry with a new backoff. The control channel, a local of start_forwarding,
\* is gone with the call that owned it.
Close ==
    /\ pc = "close"
    /\ closeCount' = [closeCount EXCEPT ![session] = @ + 1]
    /\ \E disconnect_ok \in BOOLEAN :
         closeResult' = IF disconnect_ok THEN "ok" ELSE "err"
    /\ live' = live \ {session}
    /\ session' = NoSession
    /\ NewRetry
    /\ chan' = <<>>
    /\ chanEnded' = FALSE
    /\ received' = <<>>
    /\ stdout' = <<>>
    /\ stderr' = <<>>
    /\ opens' = 0
    /\ forwards' = 0
    /\ eofs' = 0
    /\ eofResult' = "none"
    /\ UNCHANGED <<handle, nextId, result>>
    /\ UNCHANGED sideVars

Next ==
    \/ ConnectStream
    \/ Authenticate
    \/ Sleep
    \/ ChannelOpenSession
    \/ TcpipForward
    \/ RemoteSend
    \/ RemoteEnd
    \/ Wait
    \/ Close

Spec == Init /\ [][Next]_vars

\* The state of the Supervisor Loop.
Phase ==
    CASE pc \in {"connect_stream", "authenticate", "sleep"} -> "Connecting"
      [] pc \in {"channel_open_session", "tcpip_forward", "wait"} -> "Forwarding"
      [] pc = "close" -> "Closing"
      [] OTHER -> "Returned"

TypeOK ==
    /\ pc \in {"connect_stream", "authenticate", "sleep", "channel_open_session",
               "tcpip_forward", "wait", "close", "returned"}
    /\ session \in SessionIds \cup {NoSession}
    /\ handle \in SessionIds \cup {NoSession}
    /\ live \subseteq SessionIds
    /\ nextId \in 0 .. MaxSessions
    /\ attempts \in 0 .. MaxTimes
    /\ Len(received) + Len(chan) <= MaxEvents
    /\ closeResult \in {"none", "ok", "err"}

(* --------- Client::server_channel_open_forwarded_tcpip (dispatch) ------- *)

\* The remote forward is registered on the connected session: the peer may open
\* forwarded connections.
Registered ==
    /\ pc \in {"wait", "close"}
    /\ session \in live
    /\ forwards = 1
    /\ result # Err("tcpip_forward error.")

\* The forwarded connection the peer opens next.
FreeTask == CHOOSE t \in TaskIds :
                tasks[t].state = "none" /\ \A u \in TaskIds : u < t => tasks[u].state # "none"

\* The callback awaiting the serving of the connection itself: the session
\* takes the next forwarded connection only when none is being served.
OpenForwardedTcpip_Inline ==
    /\ Registered
    /\ \E t \in TaskIds : tasks[t].state = "none"
    /\ \A t \in TaskIds : tasks[t].state # "serving"
    /\ tasks' = [tasks EXCEPT ![FreeTask] = [state |-> "serving", session |-> session]]
    /\ UNCHANGED exceptTasks

\* server_channel_open_forwarded_tcpip: tokio::spawn of the task that serves the
\* connection, then Ok(()) at once.
OpenForwardedTcpip ==
    /\ Registered
    /\ \E t \in TaskIds : tasks[t].state = "none"
    /\ tasks' = [tasks EXCEPT ![FreeTask] = [state |-> "serving", session |-> session]]
    /\ UNCHANGED exceptTasks

\* serve_connection_with_upgrades returned Ok: the spawned task is over.
TaskFinish(t) ==
    /\ tasks[t].state = "serving"
    /\ tasks' = [tasks EXCEPT ![t].state = "finished"]
    /\ UNCHANGED exceptTasks

\* A fault that takes the control channel and the sibling tasks down with it.
TaskFault_TearsDown(t) ==
    /\ tasks[t].state = "serving"
    /\ tasks' = [u \in TaskIds |->
                    IF tasks[u].state = "serving"
                    THEN [tasks[u] EXCEPT !.state = "panicked"]
                    ELSE tasks[u]]
    /\ chanEnded' = TRUE
    /\ UNCHANGED <<pc, sessVars, connVars, chan, received, stdout, stderr, opens,
                   forwards, eofs, eofResult, result, closeResult, ck, getVars, ws,
                   benchVars>>

\* serve_connection_with_upgrades returned Err (a malformed request, an abrupt
\* close, the session gone): expect("Invalid request") panics in the spawned
\* task, whose JoinHandle was dropped; the panic ends that task.
TaskFault(t) ==
    /\ tasks[t].state = "serving"
    /\ tasks' = [tasks EXCEPT ![t].state = "panicked"]
    /\ UNCHANGED exceptTasks

\* The network of the dispatch specification: at most one failed connect per
\* iteration, at most one control event per channel.
Calm == outage <= 1 /\ Len(received) + Len(chan) <= 1

\* A step of ssh_entrypoint under that network.
TunnelStep == Next /\ Calm'

TaskDone == \E t \in TaskIds : TaskFinish(t)

TaskPanic == \E t \in TaskIds : TaskFault(t)

NextDispatch ==
    \/ TunnelStep
    \/ OpenForwardedTcpip
    \/ TaskDone
    \/ TaskPanic

InitDispatch == Init /\ Calm

\* ssh_entrypoint together with the tasks of the forwarded connections.
SpecDispatch == InitDispatch /\ [][NextDispatch]_vars

Serving == {t \in TaskIds : tasks[t].state = "serving"}

\* C11: a fault in the serving of one forwarded connection ends only its task:
\* the Supervisor Loop's state and the session are unchanged by it, no sibling
\* task changes, no task is spawned in its place, and the task stays ended.
C11_FaultEndsOnlyItsTask ==
    /\ [][ \A t \in TaskIds :
             (tasks[t].state = "serving" /\ tasks'[t].state = "panicked") =>
                /\ UNCHANGED tunnelVars
                /\ \A u \in TaskIds \ {t} : tasks'[u] = tasks[u] ]_vars
    /\ [][ \A t \in TaskIds :
             (tasks[t].state = "panicked") => tasks'[t] = tasks[t] ]_vars

\* One task has panicked; its sibling went on and finished, and the loop still
\* waits on the control channel of the live session.
C11_Witness ==
    /\ tasks[1].state = "panicked"
    /\ tasks[2].state = "finished"
    /\ pc = "wait"
    /\ session \in live
    /\ ~chanEnded

\* C19: the dispatch callback spawns one task per forwarded connection and
\* returns without waiting for it: whatever tasks are being served, the next
\* forwarded connection can be dispatched, the control-channel wait can take its
\* next step, and every served connection can end, in any order.
C19_DispatchDoesNotWait ==
    /\ (Registered /\ \E t \in TaskIds : tasks[t].state = "none")
           => ENABLED OpenForwardedTcpip
    /\ (pc = "wait" /\ (chan # <<>> \/ chanEnded)) => ENABLED Wait
    /\ \A t \in Serving : ENABLED TaskFinish(t) /\ ENABLED TaskFault(t)
    /\ \A t \in TaskIds : tasks[t].state # "none" => tasks[t].session # NoSession

\* Two forwarded connections are being served at once while the event loop has
\* taken an event and waits for the next.
C19_Witness ==
    /\ Cardinality(Serving) >= 2
    /\ pc = "wait"
    /\ received # <<>>

(* ------------------ TcpForwardSession::connect_key --------------------- *)

\* Bytes of a public key, and the longest key the server presents.
KeyBytes == 0 .. 1

MaxKeyLen == 2

RECURSIVE SeqsOf(_, _)
SeqsOf(S, n) ==
    IF n = 0
    THEN {<<>>}
    ELSE {<<>>} \cup {<<x>> \o q : x \in S, q \in SeqsOf(S, n - 1)}

\* Public keys a server may present.
Keys == SeqsOf(KeyBytes, MaxKeyLen) \ {<<>>}

\* The SHA-256 digest of a key, free of collisions on the keys considered: the
\* length of the key, then each byte mixed with its position.
Digest(k) == <<Len(k)>> \o [i \in 1 .. Len(k) |-> (k[i] * 2 + i) % 5]

\* PublicKey::fingerprint(HashAlg::Sha256).to_string(): the algorithm's name, a
\* colon, the digest.
FingerprintString(k) == <<"SHA256", ":">> \o Digest(k)

\* Strings a fingerprint may be configured as: the exact form, the same digest
\* under another spelling of the prefix, the exact form followed by a newline.
ConfiguredStrings ==
    UNION { { FingerprintString(k),
              <<"sha256", ":">> \o Digest(k),
              FingerprintString(k) \o <<"\n">> } : k \in Keys }

\* Client.server_fingerprint. connect_key builds its Client with None; the other
\* values are those the field's type admits.
ServerFingerprints == {None} \cup {Some(v) : v \in ConfiguredStrings}

\* A host-key check that trusts every key.
CheckServerKey_TrustsAll(server_fingerprint, server_public_key) == TRUE

\* Client::check_server_key.
CheckServerKey(server_fingerprint, server_public_key) ==
    IF server_fingerprint.some
    THEN FingerprintString(server_public_key) = server_fingerprint.value
    ELSE TRUE

Failed(e) == [ok |-> FALSE, err |-> e]

Connected == [ok |-> TRUE, err |-> ""]

\* TcpStream::connect((host, port)).await?
TcpConnect ==
    /\ ck.stage = "tcp"
    /\ \E tcp \in BOOLEAN :
         ck' = IF tcp
               THEN [ck EXCEPT !.stage = "nodelay", !.tcp = TRUE]
               ELSE [ck EXCEPT !.stage = "done", !.ret = Failed("io")]
    /\ UNCHANGED exceptCk

\* set_nodelay whose failure is returned to the caller.
SetNodelay_Fatal ==
    /\ ck.stage = "nodelay"
    /\ \E nodelay \in BOOLEAN :
         ck' = IF nodelay
               THEN [ck EXCEPT !.stage = "handshake", !.nodelay = TRUE]
               ELSE [ck EXCEPT !.stage = "done", !.ret = Failed("io")]
    /\ UNCHANGED exceptCk

\* if let Err(err) = socket.set_nodelay(true) { debug!(..) }
SetNodelay ==
    /\ ck.stage = "nodelay"
    /\ \E nodelay \in BOOLEAN :
         ck' = [ck EXCEPT !.stage = "handshake", !.nodelay = nodelay]
    /\ UNCHANGED exceptCk

\* connect_stream: the key exchange, in which the server presents its key and
\* the Client's check_server_key decides; a key it does not accept, or an I/O
\* failure, makes connect_stream return Err.
Handshake ==
    /\ ck.stage = "handshake"
    /\ \E key \in Keys, handshake \in BOOLEAN :
         LET accepted == CheckServerKey(ck.server_fingerprint, key)
         IN  ck' = IF accepted /\ handshake
                   THEN [ck EXCEPT !.stage = "auth", !.key = key, !.accepted = TRUE,
                                   !.handshake = TRUE, !.handle = TRUE]
                   ELSE [ck EXCEPT !.stage = "done", !.key = key,
                                   !.accepted = accepted, !.handshake = handshake,
                                   !.ret = Failed("Unable to connect to remote host.")]
    /\ UNCHANGED exceptCk

\* best_supported_rsa_hash().await? and authenticate_publickey(..).await..?
\* .success(): Ok(Self(session)) on success, Err and the Handle dropped otherwise.
AuthenticatePublickey ==
    /\ ck.stage = "auth"
    /\ \E rsa_hash \in BOOLEAN, auth \in AuthOutcomes :
         ck' = IF ~rsa_hash
               THEN [ck EXCEPT !.stage = "done", !.handle = FALSE,
                               !.ret = Failed("rsa hash")]
               ELSE IF auth = "Error"
               THEN [ck EXCEPT !.stage = "done", !.rsa_hash = TRUE, !.auth = auth,
                               !.handle = FALSE,
                               !.ret = Failed("Error while authenticating with key.")]
               ELSE IF auth = "Success"
               THEN [ck EXCEPT !.stage = "done", !.rsa_hash = TRUE, !.auth = auth,
                               !.ret = Connected]
               ELSE [ck EXCEPT !.stage = "done", !.rsa_hash = TRUE, !.auth = auth,
                               !.handle = FALSE,
                               !.ret = Failed("Key authentication failed.")]
    /\ UNCHANGED exceptCk

NextConnect ==
    \/ TcpConnect
    \/ SetNodelay
    \/ Handshake
    \/ AuthenticatePublickey

\* A connect_key call about to start, with any Client.server_fingerprint.
InitConnect ==
    /\ TunnelInit
    /\ outage = 0
    /\ NoTasks
    /\ NoGet
    /\ NoSocket
    /\ NoBench
    /\ \E f \in ServerFingerprints : ck = Call("tcp", f)

\* One call of connect_key, step by step.
SpecConnect == InitConnect /\ [][NextConnect]_vars

\* The server's key has been presented to check_server_key.
KeyChecked == ck.key # <<>>

\* C12: the host-key check accepts the presented key iff no fingerprint is
\* configured or the key's SHA-256 fingerprint string equals the configured
\* string exactly; a key that is not accepted ends connect_key with an error and
\* without a Session Handle.
C12_HostKeyCheck ==
    KeyChecked =>
        /\ ck.accepted <=> (\/ ck.server_fingerprint = None
                            \/ /\ ck.server_fingerprint # None
                               /\ ck.server_fingerprint.value
                                      = <<"SHA256", ":">> \o Digest(ck.key))
        /\ ~ck.accepted => /\ ck.stage = "done"
                           /\ ~ck.ret.ok
                           /\ ~ck.handle

\* A fingerprint is configured with the right digest under another spelling, the
\* key is rejected and connect_key has returned an error.
C12_Witness ==
    /\ KeyChecked
    /\ ck.server_fingerprint = Some(<<"sha256", ":">> \o Digest(ck.key))
    /\ ~ck.accepted
    /\ ck.stage = "done"
    /\ ~ck.ret.ok

\* C13: connect_key returns a Session Handle exactly when the TCP connect, the
\* handshake and the public-key authentication succeeded, whatever set_nodelay
\* returned; every other authentication outcome returns an error and leaves no
\* handle.
C13_HandleOnlyAfterAuthSuccess ==
    /\ [](ck.stage = "done" =>
             /\ ck.ret.ok <=> (ck.tcp /\ ck.accepted /\ ck.handshake
                                /\ ck.rsa_hash /\ ck.auth = "Success")
             /\ ck.handle <=> ck.ret.ok
             /\ (ck.auth \in AuthOutcomes \ {"Success"}) =>
                    ck.ret.err \in {"Key authentication failed.",
                                    "Error while authenticating with key."})
    /\ []((ck.stage \in {"handshake", "auth"}) => ck.tcp)
    /\ [][ ck.stage = "nodelay" =>
              /\ ck'.stage = "handshake"
              /\ ck'.ret = Pending ]_vars

\* set_nodelay failed and connect_key still returned the Session Handle.
C13_Witness ==
    /\ ck.stage = "done"
    /\ ck.ret.ok
    /\ ck.handle
    /\ ~ck.nodelay
    /\ ck.auth = "Success"

(* ----------------------------- get_handler ----------------------------- *)

\* Values of an AtomicU16.
U16 == 65536

\* The payload buffer: BufLen bytes, told apart by their value.
Buffer == [i \in 1 .. BufLen |-> i]

\* Path arguments of the requests: every size the buffer can serve and one it
\* cannot.
FileSizes == 0 .. (BufLen + 1)

\* Bytes::slice(begin..end): panics unless begin <= end <= len.
Slice(begin, end) ==
    IF begin <= end /\ end <= Len(Buffer)
    THEN [status |-> "200", body |-> SubSeq(Buffer, begin + 1, end)]
    ELSE [status |-> "panic", body |-> <<>>]

\* A GET /get/{file_size} request reaches the handler.
Arrive(r) ==
    /\ variant # "none"
    /\ requests[r].stage = "none"
    /\ \E file_size \in FileSizes :
         requests' = [requests EXCEPT ![r] = Request("check", file_size)]
    /\ UNCHANGED <<counter>>
    /\ UNCHANGED exceptGet

\* if file_size > data.len() { BAD_REQUEST } else { .. }
CheckSize(r) ==
    /\ requests[r].stage = "check"
    /\ requests' = [requests EXCEPT ![r] =
           IF requests[r].file_size > BufLen
           THEN [@ EXCEPT !.stage = "done", !.status = "400"]
           ELSE IF variant = "service"
           THEN [@ EXCEPT !.stage = "fetch_add"]
           ELSE [@ EXCEPT !.stage = "slice"]]
    /\ UNCHANGED <<counter>>
    /\ UNCHANGED exceptGet

\* A load of the counter and a store of the incremented value, as two steps.
FetchAdd_LoadThenStore(r) ==
    /\ requests[r].stage \in {"fetch_add", "store"}
    /\ IF requests[r].stage = "fetch_add"
       THEN /\ requests' = [requests EXCEPT ![r].stage = "store", ![r].pad = counter]
            /\ UNCHANGED <<counter>>
       ELSE /\ requests' = [requests EXCEPT ![r].stage = "slice"]
            /\ counter' = (requests[r].pad + 1) % U16
    /\ UNCHANGED exceptGet

\* let pad: usize = data.1.fetch_add(1, Ordering::AcqRel).into();
FetchAdd(r) ==
    /\ requests[r].stage = "fetch_add"
    /\ requests' = [requests EXCEPT ![r].stage = "slice", ![r].pad = counter]
    /\ counter' = (counter + 1) % U16
    /\ UNCHANGED exceptGet

\* data.0.slice(pad..file_size + pad) of the service crate, data.slice(..file_size)
\* of the other; a panic of slice ends the request without a response.
SliceBody(r) ==
    /\ requests[r].stage = "slice"
    /\ LET q == requests[r]
           out == Slice(q.pad, q.file_size + q.pad)
       IN  requests' = [requests EXCEPT ![r] =
               [q EXCEPT !.stage = "done", !.status = out.status, !.body = out.body]]
    /\ UNCHANGED <<counter>>
    /\ UNCHANGED exceptGet

Arriving == \E r \in RequestIds : Arrive(r)

Checking == \E r \in RequestIds : CheckSize(r)

Adding == \E r \in RequestIds : FetchAdd(r)

Slicing == \E r \in RequestIds : SliceBody(r)

NextGet ==
    \/ Arriving
    \/ Checking
    \/ Adding
    \/ Slicing

\* Values of the counter the requests considered may find: the first, the one
\* after it, and the last before the counter wraps.
FirstCounters == {0, 1, U16 - 1}

\* Either crate's router, no request yet.
InitGet ==
    /\ TunnelInit
    /\ outage = 0
    /\ NoTasks
    /\ NoCall
    /\ NoSocket
    /\ NoBench
    /\ variant \in {"plain", "service"}
    /\ counter0 \in (IF variant = "service" THEN FirstCounters ELSE {0})
    /\ counter = counter0
    /\ requests = [r \in RequestIds |-> NoRequest]

\* Concurrent GET requests against one router.
SpecGet == InitGet /\ [][NextGet]_vars

\* Requests that have gone through the counter.
Counted == {r \in RequestIds : requests[r].stage \in {"slice", "done"}
                               /\ requests[r].file_size <= BufLen}

\* C14: every completed GET with file_size <= buffer length has a body of exactly
\* file_size bytes, and every completed GET with file_size > buffer length is
\* answered 400.
C14_GetReturnsExactlyFileSize ==
    \A r \in RequestIds :
        requests[r].stage = "done" =>
            IF requests[r].file_size <= BufLen
            THEN /\ requests[r].status = "200"
                 /\ Len(requests[r].body) = requests[r].file_size
            ELSE requests[r].status = "400"

\* C20: in the service variant the counter changes only by the fetch_add of a
\* request with file_size <= buffer length, by exactly one modulo 2^16, that
\* request reading the value before the step; a rejected request never changes
\* it; the counter is always the first value plus the number of requests that
\* have gone through it, modulo 2^16, and no two of them read the same value.
C20_AtomicIncrementPerRequest ==
    /\ [](variant = "service" =>
            /\ counter = (counter0 + Cardinality(Counted)) % U16
            /\ \A r1, r2 \in Counted :
                   r1 # r2 => requests[r1].pad # requests[r2].pad
            /\ \A r \in RequestIds :
                   requests[r].status = "400" => r \notin Counted)
    /\ [][ (variant = "service" /\ counter' # counter) =>
             /\ counter' = (counter + 1) % U16
             /\ \E r \in RequestIds :
                  /\ requests[r].stage = "fetch_add"
                  /\ requests[r].file_size <= BufLen
                  /\ requests'[r].stage = "slice"
                  /\ requests'[r].pad = counter
                  /\ \A o \in RequestIds \ {r} : requests'[o] = requests[o] ]_vars
    /\ [][ \A r \in RequestIds :
             (requests[r].stage = "check" /\ requests[r].file_size > BufLen
              /\ requests'[r] # requests[r]) =>
                 /\ counter' = counter
                 /\ requests'[r].stage = "done" ]_vars

\* Two accepted requests and a wrap: the counter started at 2^16 - 1 and both
\* requests have gone through it.
C20_Witness ==
    /\ variant = "service"
    /\ counter0 = U16 - 1
    /\ Cardinality(Counted) = 2
    /\ counter = 1

(* ------------------------------ ws_handler ----------------------------- *)

\* Frames the peer sends on one connection.
MaxFrames == 2

\* WebSocket messages: the kind and the payload.
Frame(kind, data) == [kind |-> kind, data |-> data]

Frames == {Frame(k, d) : k \in {"Binary", "Text", "Ping"}, d \in {<<>>, <<7>>, <<7, 8>>}}

\* The peer sends a frame (measure's handler: websocket.send(Message::Binary(data))).
PeerSend ==
    /\ ws.pc \in {"next", "send"}
    /\ ~ws.ended
    /\ Len(ws.sent) < MaxFrames
    /\ \E f \in Frames :
         ws' = [ws EXCEPT !.sent = Append(@, f), !.inbound = Append(@, f)]
    /\ UNCHANGED exceptWs

\* The peer ends its stream.
PeerEnd ==
    /\ ws.pc \in {"next", "send"}
    /\ ~ws.ended
    /\ ws' = [ws EXCEPT !.ended = TRUE]
    /\ UNCHANGED exceptWs

\* socket.next().await: Some(Ok(message)) goes on to the send, None breaks.
SocketNext ==
    /\ ws.pc = "next"
    /\ \/ /\ ws.inbound # <<>>
          /\ ws' = [ws EXCEPT !.pc = "send", !.message = Head(ws.inbound),
                              !.inbound = Tail(@), !.got = Append(@, Head(ws.inbound))]
       \/ /\ ws.inbound = <<>>
          /\ ws.ended
          /\ ws' = [ws EXCEPT !.pc = "stopped", !.stop = "stream_end"]
    /\ UNCHANGED exceptWs

\* socket.next().await: Some(Err(_)) breaks.
SocketNextErr ==
    /\ ws.pc = "next"
    /\ ws' = [ws EXCEPT !.pc = "stopped", !.stop = "recv_err"]
    /\ UNCHANGED exceptWs

\* A handler that answers data frames only and passes over the others.
SocketSend_DataOnly ==
    /\ ws.pc = "send"
    /\ \E sent \in BOOLEAN :
         ws' = IF ~sent
               THEN [ws EXCEPT !.pc = "stopped", !.stop = "send_err", !.message = <<>>]
               ELSE IF ws.message.kind = "Ping"
               THEN [ws EXCEPT !.pc = "next", !.message = <<>>]
               ELSE [ws EXCEPT !.pc = "next", !.message = <<>>,
                               !.echoed = Append(@, ws.message)]
    /\ UNCHANGED exceptWs

\* if socket.send(message).await.is_err() { break; }
SocketSend ==
    /\ ws.pc = "send"
    /\ \E sent \in BOOLEAN :
         ws' = IF sent
               THEN [ws EXCEPT !.pc = "next", !.message = <<>>,
                               !.echoed = Append(@, ws.message)]
               ELSE [ws EXCEPT !.pc = "stopped", !.stop = "send_err", !.message = <<>>]
    /\ UNCHANGED exceptWs

NextWs ==
    \/ PeerSend
    \/ PeerEnd
    \/ SocketNext
    \/ SocketNextErr
    \/ SocketSend

\* The upgrade is done: the handler is at its first socket.next().
InitWs ==
    /\ TunnelInit
    /\ outage = 0
    /\ NoTasks
    /\ NoCall
    /\ NoGet
    /\ NoBench
    /\ ws = Socket("next")

\* The handler's task is scheduled as long as it can take a step.
SpecWs == InitWs /\ [][NextWs]_vars /\ WF_vars(SocketNext) /\ WF_vars(SocketSend)

IsPrefix(p, q) == Len(p) <= Len(q) /\ p = SubSeq(q, 1, Len(p))

\* C15: the handler sends back the frames it receives, unchanged and in the
\* order received, each before it receives the next; it stops only at the end of
\* the peer's stream, at a receive error or at a failed send; and every frame the
\* peer sends is eventually sent back, unless a receive error or a failed send
\* stops the handler.
C15_EchoesEveryFrame ==
    /\ [](/\ IsPrefix(ws.echoed, ws.got)
          /\ IsPrefix(ws.got, ws.sent)
          /\ ws.pc = "next" => ws.echoed = ws.got
          /\ ws.pc = "send" => /\ ws.got = Append(ws.echoed, ws.message)
          /\ ws.pc = "stopped" => ws.stop \in {"stream_end", "recv_err", "send_err"}
          /\ ws.stop = "stream_end" => ws.echoed = ws.sent)
    /\ [][ (ws.pc # "stopped" /\ ws'.pc = "stopped") =>
             \/ ws'.stop = "stream_end" /\ ws.pc = "next" /\ ws.ended /\ ws.inbound = <<>>
             \/ ws'.stop = "recv_err" /\ ws.pc = "next"
             \/ ws'.stop = "send_err" /\ ws.pc = "send" ]_vars
    /\ \A n \in 1 .. MaxFrames :
         (Len(ws.sent) >= n) ~>
             (\/ Len(ws.echoed) >= n /\ SubSeq(ws.echoed, 1, n) = SubSeq(ws.sent, 1, n)
              \/ ws.stop \in {"recv_err", "send_err"})

\* Two frames, a Ping among them, have been sent back as they came and the
\* handler has stopped at the end of the peer's stream.
C15_Witness ==
    /\ ws.stop = "stream_end"
    /\ Len(ws.echoed) = 2
    /\ ws.echoed = ws.sent
    /\ ws.echoed[1].kind = "Ping"
    /\ ws.echoed[2] = Frame("Binary", <<7, 8>>)

(* -------------------------- measure::entrypoint ------------------------ *)

Endpoints == {"Get", "Post", "Websocket"}

\* A request task is over: handler returned Ok(()) or Err, or the task panicked.
Terminated(j) == jhs[j].state \in {"ok", "err", "panicked"}

\* The tasks pushed to jhs.
Spawned == 1 .. bench.spawned

\* for _ in 0..concurrency { .. tokio::spawn(handler(..)); jhs.push(jh) }: one
\* turn of the loop, or its end.
SpawnLoop ==
    /\ bench.pc = "spawn"
    /\ IF bench.spawned < bench.concurrency
       THEN /\ bench' = [bench EXCEPT !.spawned = @ + 1]
            /\ jhs' = [jhs EXCEPT ![bench.spawned + 1] = Job("running")]
       ELSE /\ bench' = [bench EXCEPT !.pc = "join"]
            /\ UNCHANGED jhs
    /\ UNCHANGED exceptBench

\* handler: the request is sent (send().await?).
HandlerSend(j) ==
    /\ jhs[j].state = "running"
    /\ \E sent \in BOOLEAN :
         jhs' = [jhs EXCEPT ![j] =
                    IF sent
                    THEN [@ EXCEPT !.state = "awaiting", !.requests = @ + 1]
                    ELSE [@ EXCEPT !.state = "err"]]
    /\ UNCHANGED <<bench>>
    /\ UNCHANGED exceptBench

\* handler: the response arrives (error_for_status()?, bytes().await?, or the
\* echoed frame of the expected size), or the wait for it fails; then the
\* handler returns.
HandlerResponse(j) ==
    /\ jhs[j].state = "awaiting"
    /\ \E answered \in BOOLEAN :
         jhs' = [jhs EXCEPT ![j] =
                    IF answered
                    THEN [@ EXCEPT !.state = "ok", !.responses = @ + 1]
                    ELSE [@ EXCEPT !.state = "err"]]
    /\ UNCHANGED <<bench>>
    /\ UNCHANGED exceptBench

\* A join that is over as soon as one task is.
TryJoinAll_Any ==
    /\ bench.pc = "join"
    /\ \/ bench.concurrency = 0
       \/ \E j \in Spawned : Terminated(j)
    /\ bench' = [bench EXCEPT !.pc = "returned", !.logged = TRUE, !.ret = "Ok"]
    /\ UNCHANGED <<jhs>>
    /\ UNCHANGED exceptBench

\* try_join_all(jhs.into_iter()).await?; info!(.. "Benchmark finished."); Ok(()):
\* a JoinError of any task returns at once through `?`; otherwise the join is
\* over when every JoinHandle has its result, whatever the handlers returned.
TryJoinAll ==
    /\ bench.pc = "join"
    /\ IF \E j \in Spawned : jhs[j].state = "panicked"
       THEN bench' = [bench EXCEPT !.pc = "returned", !.ret = "Err"]
       ELSE /\ \A j \in Spawned : Terminated(j)
            /\ bench' = [bench EXCEPT !.pc = "returned", !.logged = TRUE, !.ret = "Ok"]
    /\ UNCHANGED <<jhs>>
    /\ UNCHANGED exceptBench

Sending == \E j \in JobIds : HandlerSend(j)

Responding == \E j \in JobIds : HandlerResponse(j)

NextBench ==
    \/ SpawnLoop
    \/ Sending
    \/ Responding
    \/ TryJoinAll

\* entrypoint called with any endpoint and any concurrency, at `for`.
InitBench ==
    /\ TunnelInit
    /\ outage = 0
    /\ NoTasks
    /\ NoCall
    /\ NoGet
    /\ NoSocket
    /\ \E e \in Endpoints, c \in 0 .. MaxConcurrency : bench = Bench("spawn", e, c)
    /\ jhs = [j \in JobIds |-> Job("none")]

\* One run of the benchmark.
SpecBench == InitBench /\ [][NextBench]_vars

C1_NeverReturnsUnderLoss ==
    (fails = connects /\ Down) => Phase = "Connecting"

\* C2: for every k, when the Connector fails on k consecutive attempts and
\* succeeds on the next one, the connecting of that iteration ends in Forwarding
\* after exactly k + 1 connect attempts.
C2_KFailuresThenForwarding ==
    Phase # "Connecting" =>
        /\ connects = outage + 1
        /\ fails = outage
        /\ Phase \in {"Forwarding", "Closing"}

\* C3: whatever start_forwarding returns, an exit code or an error, the loop's
\* next step is one call of close on that same session, which leads to the next
\* connect: no result of the Forward Session makes ssh_entrypoint return.
C3_ForwardingThenClose ==
    [][ /\ (Phase = "Forwarding" /\ Phase' # "Forwarding") =>
              /\ pc' = "close"
              /\ result' # NoResult
              /\ session' = session
              /\ session' \in live'
              /\ closeCount'[session'] = 0
        /\ (pc = "close") =>
              /\ closeCount' = [closeCount EXCEPT ![session] = 1]
              /\ pc' = "connect_stream"
              /\ result' = result ]_vars

\* A session whose start_forwarding returned an error has been closed and the
\* loop is at the connect of the next iteration.
C3_Witness ==
    /\ pc = "connect_stream"
    /\ connects = 0
    /\ result = Err("channel_open_session error.")
    /\ closeResult = "ok"
    /\ closeCount[0] = 1

\* C4: an error of the graceful close is never propagated: after the close call,
\* failed or not, the loop is at the connect of a new iteration; close is called
\* exactly once on a session.
C4_CloseNeverPropagates ==
    /\ [](\A i \in SessionIds : closeCount[i] <= 1)
    /\ [][ (pc = "close") =>
              /\ closeCount[session] = 0
              /\ closeCount'[session] = 1
              /\ closeResult' \in {"ok", "err"}
              /\ pc' = "connect_stream"
              /\ connects' = 0 ]_vars
    /\ [](pc = "close" => closeResult = "none")

\* After a failed close the loop has made a new connect attempt.
C4_Witness ==
    /\ closeResult = "err"
    /\ connects = 1
    /\ closeCount[0] = 1

\* C5: at most one Session Handle is live: while connecting only the handle of
\* the attempt in progress, none after a failed attempt, and the session of an
\* iteration is closed and given up before the next iteration's first connect.
C5_AtMostOneLiveSession ==
    /\ [](Cardinality(live) <= 1)
    /\ [](pc \in {"connect_stream", "sleep", "returned"} =>
              live = {} /\ session = NoSession /\ handle = NoSession)
    /\ [](pc = "authenticate" => live = {handle} /\ session = NoSession)
    /\ [](Phase \in {"Forwarding", "Closing"} =>
              live = {session} /\ handle = NoSession)
    /\ [][ (pc = "close") =>
              /\ closeCount'[session] = 1
              /\ live' = {}
              /\ connects' = 0 ]_vars

\* The second iteration's handle is live and the first session was closed.
C5_Witness ==
    /\ pc = "authenticate"
    /\ live = {1}
    /\ closeCount[0] = 1
    /\ session = NoSession

NonDecreasing(seq) == \A i \in 1 .. (Len(seq) - 1) : seq[i] <= seq[i + 1]

\* C6: within one run of consecutive Connector failures the delays waited are
\* non-decreasing and stay within the cap of 20 seconds, for every jitter; and
\* every run, also one after a successful forward registration, starts from the
\* base delay (plus its jitter, less than the base delay itself).
C6_DelaysNonDecreasing ==
    /\ NonDecreasing(delays)
    /\ \A i \in 1 .. Len(delays) : delays[i] <= MaxDelay
    /\ (delays # <<>>) => (delays[1] >= MinDelay /\ delays[1] < 2 * MinDelay)
    /\ (pc = "connect_stream" /\ connects = 0) =>
           (delays = <<>> /\ current_delay = NoDelay)
    /\ (pc = "connect_stream" /\ connects > 0) => slept = delays[Len(delays)]

\* After a Forward Session that was registered and ended with Close, the next
\* iteration has gone through a whole run of failures.
C6_Witness ==
    /\ result = Ok(0)
    /\ closeResult # "none"
    /\ pc = "sleep"
    /\ Len(delays) = MaxTimes

C8_NormalEndReconnectsAtOnce ==
    /\ (pc = "connect_stream" /\ connects = 0) =>
           (slept = 0 /\ attempts = 0 /\ current_delay = NoDelay /\ delays = <<>>)
    /\ (pc = "sleep") => (fails >= 1 /\ fails = connects /\ Len(delays) = fails)
    /\ (slept > 0) => fails >= 1
    /\ (Phase = "Connecting") => attempts = Len(delays)

\* A Forward Session ended with an exit code, was closed, and the next connect
\* is due.
C8_Witness ==
    /\ result.kind = "ok"
    /\ closeResult # "none"
    /\ pc = "connect_stream"
    /\ connects = 0

IsTerminal(m) == m.type \in {"Close", "ExitStatus"}

NoneAfterTerminal ==
    \A i \in 1 .. (Len(received) - 1) : ~IsTerminal(received[i])

\* C9 (as claimed): start_forwarding returns 0 on Close, and on ExitStatus(s)
\* signals eof once and returns s; Data("hello"), ExitStatus(0) writes "hello"
\* to standard output and returns 0; nothing is consumed after the first Close
\* or ExitStatus.
C9_ExitStatusReturnsCode ==
    /\ NoneAfterTerminal
    /\ (pc = "close" /\ received # <<>>) =>
         LET m == received[Len(received)] IN
         /\ (m.type = "Close") => (result = Ok(0) /\ eofs = 0)
         /\ (m.type = "ExitStatus") => (eofs = 1 /\ result = Ok(m.exit_status))
    /\ (pc = "close"
        /\ received = <<Msg("Data", "hello", 0, 0), Msg("ExitStatus", "", 0, 0)>>)
         => (stdout = <<"hello">> /\ result = Ok(0))

\* C9 (amended): as claimed, except that after an ExitStatus(s) the exit code s
\* is returned only if the eof signal succeeded; if it failed, start_forwarding
\* returns an error.
C9_ExitStatusReturnsCodeIfEofOk ==
    /\ NoneAfterTerminal
    /\ (pc = "close" /\ received # <<>>) =>
         LET m == received[Len(received)] IN
         /\ (m.type = "Close") => (result = Ok(0) /\ eofs = 0)
         /\ (m.type = "ExitStatus") =>
              /\ eofs = 1
              /\ eofResult \in {"ok", "err"}
              /\ (eofResult = "ok") => result = Ok(m.exit_status)
              /\ (eofResult = "err") => result = Err("Unable to close connection.")
    /\ (pc = "close"
        /\ received = <<Msg("Data", "hello", 0, 0), Msg("ExitStatus", "", 0, 0)>>)
         => (stdout = <<"hello">> /\ (eofResult = "ok" => result = Ok(0)))

\* Data("hello"), ExitStatus(0) were received, "hello" is on standard output
\* and start_forwarding has returned 0.
C9_Witness ==
    /\ pc = "close"
    /\ received = <<Msg("Data", "hello", 0, 0), Msg("ExitStatus", "", 0, 0)>>
    /\ stdout = <<"hello">>
    /\ eofs = 1
    /\ result = Ok(0)

\* The events the claim lists as handled: Data, ExtendedData with ext = 1,
\* Success, Close, ExitStatus.
IsRecognised(m) ==
    \/ m.type \in {"Data", "Success", "Close", "ExitStatus"}
    \/ (m.type = "ExtendedData" /\ m.ext = 1)

\* C10: an event that is none of Data, ExtendedData with ext = 1, Success, Close
\* and ExitStatus makes start_forwarding return an error, nothing is written
\* for it and no further event is consumed; the loop then closes the session
\* and goes to a new connect.
C10_UnknownMessageIsError ==
    /\ [][ (pc = "wait" /\ received' # received /\ ~IsRecognised(Head(chan))) =>
              /\ pc' = "close"
              /\ result' = Err("Unknown message type")
              /\ stdout' = stdout
              /\ stderr' = stderr ]_vars
    /\ [](\A i \in 1 .. (Len(received) - 1) : IsRecognised(received[i]))
    /\ [][ (pc = "close" /\ result = Err("Unknown message type")) =>
              /\ closeCount'[session] = 1
              /\ pc' = "connect_stream"
              /\ connects' = 0 ]_vars

\* After an unknown event the session was closed and a new connect attempt made.
C10_Witness ==
    /\ result = Err("Unknown message type")
    /\ closeCount[0] = 1
    /\ connects = 1

\* The payloads of the events of seq that the arm `want` takes, in order.
RECURSIVE Payloads(_, _)
Payloads(seq, want) ==
    IF seq = <<>> THEN <<>>
    ELSE LET m == Head(seq)
             mine == \/ (want = "stdout" /\ m.type = "Data")
                     \/ (want = "stderr" /\ m.type = "ExtendedData" /\ m.ext = 1)
         IN  (IF mine THEN <<m.data>> ELSE <<>>) \o Payloads(Tail(seq), want)

\* start_forwarding is in its event loop, or has left it on a Close, an
\* ExitStatus or an unknown event.
Draining ==
    \/ pc = "wait"
    \/ /\ pc = "close"
       /\ received # <<>>
       /\ (IsTerminal(received[Len(received)])
           \/ ~IsRecognised(received[Len(received)]))

\* C17: while start_forwarding drains the control channel the events are taken
\* in arrival order; standard output holds exactly the Data payloads received,
\* standard error exactly the payloads of ExtendedData with ext = 1, each in the
\* order received; a Success changes nothing and the loop goes on.
C17_EventsInArrivalOrder ==
    /\ [](Draining => /\ stdout = Payloads(received, "stdout")
                      /\ stderr = Payloads(received, "stderr"))
    /\ [][ (received' # received /\ pc' # "connect_stream") =>
              /\ chan # <<>>
              /\ received' = Append(received, Head(chan))
              /\ chan' = Tail(chan) ]_vars
    /\ [][ (pc = "wait" /\ received' # received /\ Head(chan).type = "Success") =>
              /\ pc' = "wait"
              /\ UNCHANGED <<stdout, stderr, result, eofs>> ]_vars

\* Two Data events were received and written in the order they arrived.
C17_Witness ==
    /\ pc = "wait"
    /\ received = <<Msg("Data", "world", 0, 0), Msg("Data", "hello", 0, 0)>>
    /\ stdout = <<"world", "hello">>

\* C18: on one session start_forwarding opens the control channel once and
\* sends at most one forward request, and that only after the channel was
\* opened; a failed open sends no forward request, and after a failed open or a
\* failed forward request the event loop is never entered.
C18_OneChannelOneForward ==
    /\ opens <= 1
    /\ forwards <= 1
    /\ forwards <= opens
    /\ (pc \in {"tcpip_forward", "wait"}) => (opens = 1 /\ result = NoResult)
    /\ (pc = "wait") => forwards = 1
    /\ (pc = "close") => opens = 1
    /\ (pc = "close" /\ result = Err("channel_open_session error.")) =>
           (forwards = 0 /\ received = <<>> /\ chan = <<>>)
    /\ (pc = "close" /\ result = Err("tcpip_forward error.")) =>
           (forwards = 1 /\ received = <<>>)
    /\ (forwards = 0 \/ result = Err("tcpip_forward error.")) => received = <<>>

\* Opening the control channel failed: start_forwarding has returned without a
\* forward request.
C18_Witness ==
    /\ pc = "close"
    /\ result = Err("channel_open_session error.")
    /\ opens = 1
    /\ forwards = 0

\* C21: when channel.wait() yields nothing, no Close or ExitStatus event having
\* been received, start_forwarding returns the error "Unexpected end of channel"
\* and no exit code; it returns an exit code only right after a Close event, or
\* after an ExitStatus event whose eof signal succeeded.
C21_EndOfChannelIsError ==
    /\ [](pc = "wait" => \A i \in 1 .. Len(received) : ~IsTerminal(received[i]))
    /\ [][ (pc = "wait" /\ chan = <<>> /\ pc' # "wait") =>
              /\ chanEnded
              /\ pc' = "close"
              /\ received' = received
              /\ result' = Err("Unexpected end of channel.")
              /\ result'.kind # "ok" ]_vars
    /\ []((pc = "close" /\ result = Err("Unexpected end of channel.")) =>
              \A i \in 1 .. Len(received) : ~IsTerminal(received[i]))
    /\ []((pc = "close" /\ result.kind = "ok") =>
              /\ received # <<>>
              /\ LET m == received[Len(received)] IN
                    \/ m.type = "Close" /\ result.code = 0 /\ eofs = 0
                    \/ /\ m.type = "ExitStatus"
                       /\ eofResult = "ok"
                       /\ result.code = m.exit_status)

\* A Data event was received, then the event stream ended: start_forwarding has
\* returned the error, with "hello" written and no eof signalled.
C21_Witness ==
    /\ pc = "close"
    /\ result = Err("Unexpected end of channel.")
    /\ received = <<Msg("Data", "hello", 0, 0)>>
    /\ stdout = <<"hello">>
    /\ eofs = 0

\* C22: when a request task spawned by entrypoint has ended with an error,
\* entrypoint returns an error, and it neither logs the benchmark as finished nor
\* returns Ok.
C22_TaskErrorFailsEntrypoint ==
    (bench.pc = "returned" /\ \E j \in Spawned : jhs[j].state = "err") =>
        /\ bench.ret = "Err"
        /\ ~bench.logged

====
